---- MODULE Spec2Model ----
(***************************************************************************)
(* A model of characterize (src/src/main.rs): an image is tiled into cells *)
(* sized by a font's glyph metrics, each cell's average colour is sampled  *)
(* and a glyph is drawn in that colour.                                    *)
(*                                                                         *)
(* Characters are Unicode code points (integers); a string is a sequence   *)
(* of code points.  The model's character universe is ASCII.               *)
(* f32 metrics are exact rationals num/den (the fonts below use a power of *)
(* two as units-per-em, so every f32 operation of the program is exact).   *)
(***************************************************************************)
EXTENDS Integers, Sequences, FiniteSets, TLC

\* ------------------------------------------------------------ bounds
MaxWidth == 4
MaxHeight == 3
MaxFontSize == 3
MaxHexLen == 7
AvgDim == 2

\* ------------------------------------------------------- small helpers
Min(a, b) == IF a < b THEN a ELSE b

Max(a, b) == IF a > b THEN a ELSE b

Range(s) == {s[i] : i \in 1..Len(s)}

Err == [ok |-> FALSE]

Ok(v) == [ok |-> TRUE, val |-> v]

\* Some string literals of the runs below, as code points.
StrEmpty == <<>>
StrHash == <<35>>                                      \* "#"
StrAb == <<97, 98>>                                    \* "ab"
StrBlack == <<35, 48, 48, 48, 48, 48, 48>>             \* "#000000"
StrFff == <<35, 102, 102, 102>>                        \* "#fff"
StrWhite == <<35, 70, 70, 70, 70, 70, 70>>             \* "#FFFFFF"
StrZeros == <<48, 48, 48, 48, 48, 48>>                 \* "000000"
StrHello == <<72, 101, 108, 108, 111, 44, 32, 87, 111, 114, 108, 100, 33>>
StrHelloWorld == <<72, 101, 108, 108, 111, 87, 111, 114, 108, 100>>
StrPunct == <<44, 32, 33>>                             \* ", !"
StrBlank == <<32, 10>>                                 \* " \n"
StrXy == <<32, 120, 121, 10>>                          \* " xy\n"

\* ------------------------------------------------- char classification
\* char::is_alphabetic on ASCII.
IsAlphabetic(c) == (c >= 65 /\ c <= 90) \/ (c >= 97 /\ c <= 122)

\* char::is_whitespace on ASCII (what str::trim strips).
IsWhitespace(c) == c \in {9, 10, 11, 12, 13, 32}

\* char::to_digit(16): the digit's value, or -1.
ToDigit16(c) ==
  IF c >= 48 /\ c <= 57 THEN c - 48
  ELSE IF c >= 65 /\ c <= 70 THEN c - 55
  ELSE IF c >= 97 /\ c <= 102 THEN c - 87
  ELSE -1

RECURSIVE TrimStart(_)
TrimStart(s) ==
  IF s = <<>> THEN s
  ELSE IF IsWhitespace(Head(s)) THEN TrimStart(Tail(s)) ELSE s

RECURSIVE TrimEnd(_)
TrimEnd(s) ==
  IF s = <<>> THEN s
  ELSE IF IsWhitespace(s[Len(s)]) THEN TrimEnd(SubSeq(s, 1, Len(s) - 1)) ELSE s

\* str::trim
Trim(s) == TrimEnd(TrimStart(s))

\* ------------------------------------------------------ get_rgb_from_hex
RECURSIVE HexValue(_, _)
HexValue(s, acc) ==
  IF s = <<>> THEN acc ELSE HexValue(Tail(s), acc * 16 + ToDigit16(Head(s)))

\* u8::from_str_radix(s, 16): an optional leading '+', then at least one hex
\* digit, the value at most 255.
U8FromStrRadix16(s) ==
  LET digits == IF s # <<>> /\ Head(s) = 43 THEN Tail(s) ELSE s
  IN  IF digits = <<>> THEN Err
      ELSE IF \E i \in 1..Len(digits) : ToDigit16(digits[i]) < 0 THEN Err
      ELSE IF HexValue(digits, 0) > 255 THEN Err
      ELSE Ok(HexValue(digits, 0))

\* hex.replace("#", "") drops every '#'; split_at(2) twice leaves in b everything
\* after the fourth byte.
get_rgb_from_hex(hex) ==
  LET h == SelectSeq(hex, LAMBDA c : c # 35)
  IN  IF Len(h) < 6 THEN Err
      ELSE LET r == U8FromStrRadix16(SubSeq(h, 1, 2))
               g == U8FromStrRadix16(SubSeq(h, 3, 4))
               b == U8FromStrRadix16(SubSeq(h, 5, Len(h)))
           IN  IF r.ok /\ g.ok /\ b.ok THEN Ok(<<r.val, g.val, b.val>>) ELSE Err

\* --------------------------------------------------------- sanatize_text
\* A sanitizer that strips only a fixed list of punctuation and whitespace and
\* so lets other non-alphabetic characters through.
sanatize_text_striplist(text) == SelectSeq(text, LAMBDA c : c \notin {32, 33, 46})

sanatize_text(text) == SelectSeq(text, IsAlphabetic)

\* -------------------------------------------------------- get_characters
CodeRange(lo, hi) == [i \in 1..(hi - lo + 1) |-> lo + i - 1]

CharsetNames == {"latin", "decimal", "hexadecimal", "binary"}

get_characters(charset) ==
  CASE charset = "latin" -> SelectSeq(CodeRange(65, 122), IsAlphabetic)
    [] charset = "decimal" -> CodeRange(48, 57)
    [] charset = "hexadecimal" -> CodeRange(48, 57) \o CodeRange(65, 70)
    [] charset = "binary" -> <<48, 49>>

\* ------------------------------------------------------------- the font
\* A loaded font (ab_glyph FontVec): unscaled metrics in font units.  The glyph
\* of a character is found through the font's character map.
FontFiles == {"prop.ttf", "mono.ttf", "missing.ttf"}

PropFont ==
  [height_unscaled |-> 4, line_gap_unscaled |-> 1,
   h_advance_unscaled |-> <<2, 4>>, h_side_bearing_unscaled |-> <<0, -1>>]

MonoFont ==
  [height_unscaled |-> 4, line_gap_unscaled |-> 0,
   h_advance_unscaled |-> <<2, 2>>, h_side_bearing_unscaled |-> <<0, 0>>]

get_font(filename) ==
  CASE filename = "prop.ttf" -> Ok(PropFont)
    [] filename = "mono.ttf" -> Ok(MonoFont)
    [] OTHER -> Err

glyph_id(f, c) == (c % Len(f.h_advance_unscaled)) + 1

\* font.as_scaled(size): every metric is the unscaled one times
\* size / height_unscaled.  A rational is <<numerator, denominator>>.
glyph_height(f, size) ==
  <<size * (f.height_unscaled - f.line_gap_unscaled), f.height_unscaled>>

glyph_width(f, size, c) ==
  <<size * (f.h_advance_unscaled[glyph_id(f, c)]
            + f.h_side_bearing_unscaled[glyph_id(f, c)]), f.height_unscaled>>

\* f32 as u32: truncation toward zero, saturating at 0 for negatives.
AsU32(q) == IF q[1] <= 0 THEN 0 ELSE q[1] \div q[2]

\* f32::ceil() as u32
CeilAsU32(q) == IF q[1] <= 0 THEN 0 ELSE (q[1] + q[2] - 1) \div q[2]

\* ------------------------------------------------------------ the image
Coords(w, h) == (0..(w - 1)) \X (0..(h - 1))

\* A decoded source image of the given size.
Picture(w, h) ==
  [width |-> w, height |-> h,
   px |-> [p \in Coords(w, h) |-> <<(85 * p[1]) % 256, (85 * p[2]) % 256, 255>>]]

Pictures == {Picture(w, h) : w \in 1..MaxWidth, h \in 1..MaxHeight}

\* f32::round of a non-negative rational a/b (half away from zero).
RoundDiv(a, b) == (2 * a + b) \div (2 * b)

\* DynamicImage::resize(nwidth, nheight, Nearest): the aspect ratio is kept,
\* the image fits in nwidth x nheight, no side is below 1.
Resize(img, nwidth, nheight) ==
  LET w == img.width
      h == img.height
      byWidth == nwidth * h <= nheight * w       \* nwidth/w <= nheight/h
      nw == Max(IF byWidth THEN nwidth ELSE RoundDiv(w * nheight, h), 1)
      nh == Max(IF byWidth THEN RoundDiv(h * nwidth, w) ELSE nheight, 1)
  IN  [width |-> nw, height |-> nh,
       px |-> [p \in Coords(nw, nh) |->
                 img.px[<<Min(((2 * p[1] + 1) * w) \div (2 * nw), w - 1),
                          Min(((2 * p[2] + 1) * h) \div (2 * nh), h - 1)>>]]]

\* args.scale as <<numerator, denominator>>: 1.0 and 0.5.
Scales == {<<1, 1>>, <<1, 2>>}

Scaled(img, scale) ==
  IF scale = <<1, 1>> THEN img
  ELSE Resize(img, RoundDiv(img.width * scale[1], scale[2]),
                   RoundDiv(img.height * scale[1], scale[2]))

\* GenericImageView::crop_imm(x, y, width, height): the rectangle clipped to the
\* image: its origin, its size and its pixels.
crop_imm(img, x, y, width, height) ==
  LET x0 == Min(x, img.width)
      y0 == Min(y, img.height)
      w == Min(width, img.width - x0)
      h == Min(height, img.height - y0)
  IN  [x |-> x0, y |-> y0, width |-> w, height |-> h,
       px |-> [p \in Coords(w, h) |-> img.px[<<x0 + p[1], y0 + p[2]>>]]]

RECURSIVE ChannelSum(_, _, _)
ChannelSum(sec, ch, k) ==
  IF k = 0 THEN 0
  ELSE sec.px[<<(k - 1) % sec.width, (k - 1) \div sec.width>>][ch]
       + ChannelSum(sec, ch, k - 1)

\* A usize division; dividing by zero panics.
DivUsize(a, b) == IF b = 0 THEN Err ELSE Ok(a \div b)

\* An average that rounds to nearest instead of truncating.
get_average_color_rounded(image_section) ==
  LET n == image_section.width * image_section.height
      r == DivUsize(2 * ChannelSum(image_section, 1, n) + n, 2 * n)
      g == DivUsize(2 * ChannelSum(image_section, 2, n) + n, 2 * n)
      b == DivUsize(2 * ChannelSum(image_section, 3, n) + n, 2 * n)
  IN  IF r.ok /\ g.ok /\ b.ok
      THEN Ok(<<r.val % 256, g.val % 256, b.val % 256>>)
      ELSE Err

get_average_color(image_section) ==
  LET pixel_amount == image_section.width * image_section.height
      r == DivUsize(ChannelSum(image_section, 1, pixel_amount), pixel_amount)
      g == DivUsize(ChannelSum(image_section, 2, pixel_amount), pixel_amount)
      b == DivUsize(ChannelSum(image_section, 3, pixel_amount), pixel_amount)
  IN  IF r.ok /\ g.ok /\ b.ok
      THEN Ok(<<r.val % 256, g.val % 256, b.val % 256>>)
      ELSE Err

\* ============================================================== main()
VARIABLES
  pc,                \* where main() is
  args,              \* the parsed command line
  characters,        \* Vec<char> of random mode
  background_color,
  custom_file,       \* what read_to_string(args.custom_charset) returned
  text_file,         \* what read_to_string(args.textfile) returned
  input_image,
  font,
  text,              \* the sanitized text
  text_pos,          \* position of text.chars().cycle()
  x, y,              \* the cursor
  section,           \* the last image section handed to get_average_color
  drawn,             \* the last draw_text_mut call
  cells,             \* number of draw_text_mut calls so far
  covered,           \* per source pixel: in how many sampled sections it lay
  message,           \* what the run printed last, or its panic message
  hex_in, hex_out,   \* get_rgb_from_hex alone: argument and result
  avg_in, avg_out    \* crop_imm + get_average_color alone: argument and result

mainVars ==
  <<pc, args, characters, background_color, custom_file, text_file, input_image,
    font, text, text_pos, x, y, section, drawn, cells, covered, message>>

fnVars == <<hex_in, hex_out, avg_in, avg_out>>

vars == <<mainVars, fnVars>>

Unset == [ok |-> FALSE]

Characters == {StrEmpty, StrHash, StrAb}

TextPaths == {"", "text.txt"}

CharsetPaths == {"", "charset.txt"}

Backgrounds == {StrBlack, StrFff}

FontSizes == 0..MaxFontSize

\* What the files may hold when they are read.
TextFiles == {Err, Ok(StrHello), Ok(StrPunct)}

CharsetFiles == {Err, Ok(StrBlank), Ok(StrXy)}

ArgsSet ==
  [character : Characters, textfile : TextPaths, charset : {"hexadecimal", "binary"},
   custom_charset : CharsetPaths, background : Backgrounds, font : FontFiles,
   font_size : FontSizes]

MainInit ==
  /\ pc = "validate"
  /\ args \in ArgsSet
  /\ characters = <<>>
  /\ background_color = Unset
  /\ custom_file = Unset
  /\ text_file = Unset
  /\ input_image = Unset
  /\ font = Unset
  /\ text = <<>>
  /\ text_pos = 0
  /\ x = 0
  /\ y = 0
  /\ section = Unset
  /\ drawn = Unset
  /\ cells = 0
  /\ covered = <<>>
  /\ message = ""

FnIdle == hex_in = <<>> /\ hex_out = Unset /\ avg_in = Unset /\ avg_out = Unset

Init == MainInit /\ FnIdle

\* println!(..); exit(0)
Exit(msg) ==
  /\ pc' = "exit"
  /\ message' = msg

Panic(msg) ==
  /\ pc' = "panic"
  /\ message' = msg

\* A validation that lets --character and --textfile through together.
ValidateNoCheck ==
  /\ pc = "validate"
  /\ pc' = "charset"
  /\ UNCHANGED <<args, characters, background_color, custom_file, text_file,
                 input_image, font, text, text_pos, x, y, section, drawn, cells,
                 covered, message, fnVars>>

\* lines 23-27
Validate ==
  /\ pc = "validate"
  /\ IF args.textfile # "" /\ args.character # <<>>
     THEN Exit("You cannot have both flags at the same time: --character, --textfile")
     ELSE pc' = "charset" /\ UNCHANGED message
  /\ UNCHANGED <<args, characters, background_color, custom_file, text_file,
                 input_image, font, text, text_pos, x, y, section, drawn, cells,
                 covered, fnVars>>

\* lines 29-31
LoadCharset ==
  /\ pc = "charset"
  /\ characters' = get_characters(args.charset)
  /\ pc' = "background"
  /\ UNCHANGED <<args, background_color, custom_file, text_file, input_image, font,
                 text, text_pos, x, y, section, drawn, cells, covered, message,
                 fnVars>>

\* lines 33-36
ParseBackground ==
  /\ pc = "background"
  /\ LET c == get_rgb_from_hex(args.background)
     IN  IF c.ok
         THEN background_color' = c /\ pc' = "custom_charset" /\ UNCHANGED message
         ELSE Exit("Invalid background color") /\ UNCHANGED background_color
  /\ UNCHANGED <<args, characters, custom_file, text_file, input_image, font, text,
                 text_pos, x, y, section, drawn, cells, covered, fnVars>>

\* A custom charset that is added to the named one instead of replacing it.
CustomCharactersAppended(contents) == characters \o Trim(contents)

\* The characters of a custom charset file: its trimmed contents.
CustomCharacters(contents) == Trim(contents)

\* lines 38-47
ReadCustomCharset ==
  /\ pc = "custom_charset"
  /\ IF args.custom_charset = ""
     THEN pc' = "open_image" /\ UNCHANGED <<characters, custom_file, message>>
     ELSE \E file \in CharsetFiles :
            /\ custom_file' = file
            /\ IF file.ok
               THEN /\ characters' = CustomCharacters(file.val)
                    /\ pc' = "open_image"
                    /\ UNCHANGED message
               ELSE /\ Exit("Unable to read custom charset file")
                    /\ UNCHANGED characters
  /\ UNCHANGED <<args, background_color, text_file, input_image, font, text,
                 text_pos, x, y, section, drawn, cells, covered, fnVars>>

\* lines 49-59
OpenImage ==
  /\ pc = "open_image"
  /\ \/ \E img \in Pictures : input_image' = Ok(img) /\ pc' = "scale"
                              /\ UNCHANGED message
     \/ Exit("Unsupported image format") /\ UNCHANGED input_image
     \/ Exit("No such file") /\ UNCHANGED input_image
  /\ UNCHANGED <<args, characters, background_color, custom_file, text_file, font,
                 text, text_pos, x, y, section, drawn, cells, covered, fnVars>>

\* lines 61-68
ScaleImage ==
  /\ pc = "scale"
  /\ \E scale \in Scales : input_image' = Ok(Scaled(input_image.val, scale))
  /\ pc' = "font"
  /\ UNCHANGED <<args, characters, background_color, custom_file, text_file, font,
                 text, text_pos, x, y, section, drawn, cells, covered, message,
                 fnVars>>

\* lines 70-74
LoadFont ==
  /\ pc = "font"
  /\ LET f == get_font(args.font)
     IN  IF f.ok
         THEN font' = f /\ pc' = "text" /\ UNCHANGED message
         ELSE Exit("Unable to read font file") /\ UNCHANGED font
  /\ UNCHANGED <<args, characters, background_color, custom_file, text_file,
                 input_image, text, text_pos, x, y, section, drawn, cells, covered,
                 fnVars>>

\* lines 76-84
LoadText ==
  /\ pc = "text"
  /\ IF args.textfile = ""
     THEN text' = <<>> /\ pc' = "setup" /\ UNCHANGED <<text_file, message>>
     ELSE \E file \in TextFiles :
            /\ text_file' = file
            /\ IF file.ok
               THEN text' = sanatize_text(file.val) /\ pc' = "setup"
                    /\ UNCHANGED message
               ELSE Exit("Could not read text file") /\ UNCHANGED text
  /\ text_pos' = 0
  /\ UNCHANGED <<args, characters, background_color, custom_file, input_image, font,
                 x, y, section, drawn, cells, covered, fnVars>>

ImageWidth == input_image.val.width

ImageHeight == input_image.val.height

GlyphHeight == glyph_height(font.val, args.font_size)

\* lines 86-106: the output image, the row height, the progress bar's total
\* (image height / ceil(glyph height), an integer division).
Setup ==
  /\ pc = "setup"
  /\ IF DivUsize(ImageHeight, CeilAsU32(GlyphHeight)).ok
     THEN /\ covered' = [p \in Coords(ImageWidth, ImageHeight) |-> 0]
          /\ y' = 0
          /\ pc' = "row"
          /\ UNCHANGED message
     ELSE /\ Panic("attempt to divide by zero")
          /\ UNCHANGED <<covered, y>>
  /\ UNCHANGED <<args, characters, background_color, custom_file, text_file,
                 input_image, font, text, text_pos, x, section, drawn, cells, fnVars>>

\* lines 107-108: while y < input_image.height() { let mut x = 0;
Row ==
  /\ pc = "row"
  /\ IF y < ImageHeight
     THEN x' = 0 /\ pc' = "cell"
     ELSE pc' = "save" /\ UNCHANGED x
  /\ UNCHANGED <<args, characters, background_color, custom_file, text_file,
                 input_image, font, text, text_pos, y, section, drawn, cells,
                 covered, message, fnVars>>

\* lines 110-119: Some(glyphs) the cell may get, or None when
\* characters.choose() finds the vec empty.
NextGlyphs ==
  IF text # <<>> THEN {text[text_pos + 1]}
  ELSE IF args.character = <<>> THEN Range(characters)
  ELSE {Head(args.character)}

\* line 124: the requested section size
SectionWidth(q) == AsU32(q)

SectionHeight(q) == AsU32(q)

\* A step that rounds up where the section size rounds down.
StepWidthCeil(q) == CeilAsU32(q)

\* lines 136, 138: the cursor steps
StepWidth(q) == AsU32(q)

StepHeight(q) == AsU32(q)

\* A cursor that is set to the step instead of advanced by it.
NextXAssigned(cx, w) == w

NextX(cx, w) == cx + w

NextY(cy, h) == cy + h

\* One more sampling of every pixel of the section.
Cover(cov, sec) ==
  [p \in DOMAIN cov |->
     IF /\ p[1] >= sec.x /\ p[1] < sec.x + sec.width
        /\ p[2] >= sec.y /\ p[2] < sec.y + sec.height
     THEN cov[p] + 1 ELSE cov[p]]

\* lines 109-137: one pass of the inner loop's body
Cell ==
  /\ pc = "cell"
  /\ x < ImageWidth
  /\ IF NextGlyphs = {}
     THEN /\ Panic("vec should never be empty")
          /\ UNCHANGED <<text_pos, x, section, drawn, cells, covered>>
     ELSE \E glyph \in NextGlyphs :
            LET w == glyph_width(font.val, args.font_size, glyph)
                sec == crop_imm(input_image.val, x, y,
                                SectionWidth(w), SectionHeight(GlyphHeight))
                color == get_average_color(sec)
            IN  /\ text_pos' = IF text # <<>> THEN (text_pos + 1) % Len(text)
                                ELSE text_pos
                /\ section' = [x |-> sec.x, y |-> sec.y, width |-> sec.width,
                               height |-> sec.height, ok |-> TRUE]
                /\ covered' = Cover(covered, sec)
                /\ IF color.ok
                   THEN /\ drawn' = [ok |-> TRUE, x |-> x, y |-> y, glyph |-> glyph,
                                     color |-> color.val, step |-> StepWidth(w)]
                        /\ cells' = cells + 1
                        /\ x' = NextX(x, StepWidth(w))
                        /\ UNCHANGED <<pc, message>>
                   ELSE /\ Panic("attempt to divide by zero")
                        /\ UNCHANGED <<drawn, cells, x>>
  /\ UNCHANGED <<args, characters, background_color, custom_file, text_file,
                 input_image, font, text, y, fnVars>>

\* lines 137-139: the inner loop ends, y += glyph_height as u32
RowEnd ==
  /\ pc = "cell"
  /\ x >= ImageWidth
  /\ y' = NextY(y, StepHeight(GlyphHeight))
  /\ pc' = "row"
  /\ UNCHANGED <<args, characters, background_color, custom_file, text_file,
                 input_image, font, text, text_pos, x, section, drawn, cells,
                 covered, message, fnVars>>

\* lines 142-145
Save ==
  /\ pc = "save"
  /\ \E written \in BOOLEAN :
       message' = IF written THEN message ELSE "Couldn't write to file"
  /\ pc' = "done"
  /\ UNCHANGED <<args, characters, background_color, custom_file, text_file,
                 input_image, font, text, text_pos, x, y, section, drawn, cells,
                 covered, fnVars>>

Next ==
  \/ Validate
  \/ LoadCharset
  \/ ParseBackground
  \/ ReadCustomCharset
  \/ OpenImage
  \/ ScaleImage
  \/ LoadFont
  \/ LoadText
  \/ Setup
  \/ Row
  \/ Cell
  \/ RowEnd
  \/ Save

Spec == Init /\ [][Next]_vars

\* ================================================ get_rgb_from_hex alone
MainIdle ==
  /\ pc = "idle"
  /\ args = Unset
  /\ characters = <<>>
  /\ background_color = Unset
  /\ custom_file = Unset
  /\ text_file = Unset
  /\ input_image = Unset
  /\ font = Unset
  /\ text = <<>>
  /\ text_pos = 0
  /\ x = 0
  /\ y = 0
  /\ section = Unset
  /\ drawn = Unset
  /\ cells = 0
  /\ covered = <<>>
  /\ message = ""

\* '#', '+', '0', 'F', 'g'
HexAlphabet == {35, 43, 48, 70, 103}

HexInputs ==
  UNION {[1..n -> HexAlphabet] : n \in 0..MaxHexLen}
    \cup {StrBlack, StrFff, StrWhite, StrZeros}

HexInit ==
  /\ MainIdle
  /\ hex_in \in HexInputs
  /\ hex_out = Unset
  /\ avg_in = Unset
  /\ avg_out = Unset

\* get_rgb_from_hex(&hex_in); "called" tells a failed parse from no parse yet.
ParseHex ==
  /\ hex_out = Unset
  /\ hex_out' = [called |-> TRUE, result |-> get_rgb_from_hex(hex_in)]
  /\ UNCHANGED <<mainVars, hex_in, avg_in, avg_out>>

SpecHex == HexInit /\ [][ParseHex]_vars

\* ================================== crop_imm + get_average_color alone
Black == <<0, 0, 0>>

Orange == <<255, 1, 2>>

Buffers ==
  UNION {[width : {w}, height : {h}, px : [Coords(w, h) -> {Black, Orange}]] :
           <<w, h>> \in (1..AvgDim) \X (1..AvgDim)}

Regions ==
  [x : 0..AvgDim, y : 0..AvgDim, width : 0..(AvgDim + 1), height : 0..(AvgDim + 1)]

AvgInit ==
  /\ MainIdle
  /\ avg_in \in [buffer : Buffers, region : Regions]
  /\ avg_out = Unset
  /\ hex_in = <<>>
  /\ hex_out = Unset

\* get_average_color(buffer.crop_imm(x, y, width, height)), as main() line 124-125
AverageRegion ==
  /\ avg_out = Unset
  /\ LET r == avg_in.region
         sec == crop_imm(avg_in.buffer, r.x, r.y, r.width, r.height)
     IN  avg_out' = [called |-> TRUE, result |-> get_average_color(sec)]
  /\ UNCHANGED <<mainVars, hex_in, hex_out, avg_in>>

SpecAvg == AvgInit /\ [][AverageRegion]_vars

\* ============================================================ properties
InLoop == pc \in {"row", "cell"}

\* Every glyph the character source can produce in this run.
GlyphSource ==
  IF text # <<>> THEN Range(text)
  ELSE IF args.character = <<>> THEN Range(characters)
  ELSE {Head(args.character)}

\* The run's steps are all at least one pixel.
StepsPositive ==
  /\ StepHeight(GlyphHeight) >= 1
  /\ \A g \in GlyphSource : StepWidth(glyph_width(font.val, args.font_size, g)) >= 1

\* C1: grid coverage, as a variant argument.  In a loop that has a glyph for
\* every cell and whose steps are all >= 1 no pass of the body fails; every
\* pass of the inner loop's body moves x strictly right, a row is left only
\* with x >= W and moves y strictly down, the loop is left only with y >= H,
\* and at most W * H cells are drawn: the loop ends.
C1_GridCoverage ==
  /\ [](InLoop => cells <= ImageWidth * ImageHeight)
  /\ [][/\ (pc = "cell" /\ pc' = "cell") => (x < ImageWidth /\ x' > x /\ y' = y)
        /\ (pc = "cell" /\ pc' = "row") => (x >= ImageWidth /\ y' > y)
        /\ (pc = "row" /\ pc' = "cell") => (y < ImageHeight /\ y' = y)
        /\ (pc = "row" /\ pc' = "save") => (y >= ImageHeight)
        /\ (InLoop /\ StepsPositive /\ GlyphSource # {}) => (pc' # "panic")]_vars

\* A run of three rows of four cells each has left the loop.
C1_Witness ==
  /\ pc = "save"
  /\ cells = 12
  /\ ImageHeight = 3
  /\ y >= ImageHeight

\* C2: a zero step ends the run in a reported DegenerateMetrics error: no
\* zero-area section is ever sampled and the run never dies of the division
\* by the pixel count.
C2_DegenerateMetrics ==
  /\ section.ok => (section.width > 0 /\ section.height > 0)
  /\ ~(pc = "panic" /\ message = "attempt to divide by zero")

\* The hex contract of the specification: one leading '#' is dropped, the
\* first six characters are three two-digit hex pairs, the rest is ignored.
HexContract(hex) ==
  LET h == IF hex # <<>> /\ Head(hex) = 35 THEN Tail(hex) ELSE hex
      pair(i) == 16 * ToDigit16(h[i]) + ToDigit16(h[i + 1])
  IN  IF Len(h) < 6 \/ (\E i \in 1..6 : ToDigit16(h[i]) < 0) THEN Err
      ELSE Ok(<<pair(1), pair(3), pair(5)>>)

\* C3: get_rgb_from_hex returns what the hex contract says, for every input;
\* "#FFFFFF" is (255,255,255), "000000" is (0,0,0), "#fff" is InvalidColor.
C3_HexContract ==
  /\ HexContract(StrWhite) = Ok(<<255, 255, 255>>)
  /\ HexContract(StrZeros) = Ok(<<0, 0, 0>>)
  /\ HexContract(StrFff) = Err
  /\ (hex_out # Unset) => (hex_out.result = HexContract(hex_in))

\* C4: a custom charset file whose trimmed contents are empty ends the run,
\* reported, before the composition loop: the run never gets as far as the
\* loop and never panics.
C4_EmptyCharsetReported ==
  (custom_file.ok /\ Trim(custom_file.val) = <<>>)
    => (pc \notin {"setup", "row", "cell", "save", "done", "panic"})

\* C5: the section size and the cursor steps are the ceilings of the metrics:
\* a drawn cell's step in x is ceil(advance + side bearing), its section is
\* that wide and ceil(line height - line gap) high (clipped to the image), and
\* every row starts at a multiple of ceil(line height - line gap).
C5_CeilingSteps ==
  (drawn.ok /\ pc = "cell" /\ section.x = drawn.x /\ section.y = drawn.y) =>
    LET w == CeilAsU32(glyph_width(font.val, args.font_size, drawn.glyph))
        h == CeilAsU32(GlyphHeight)
    IN  /\ drawn.step = w
        /\ x = drawn.x + w
        /\ section.width = Min(w, ImageWidth - section.x)
        /\ section.height = Min(h, ImageHeight - section.y)
        /\ y % h = 0

\* Every non-alphabetic character removed, by recursion on the text.
RECURSIVE AlphabeticOnly(_)
AlphabeticOnly(s) ==
  IF s = <<>> THEN <<>>
  ELSE IF (Head(s) \in 65..90) \/ (Head(s) \in 97..122)
       THEN <<Head(s)>> \o AlphabeticOnly(Tail(s))
       ELSE AlphabeticOnly(Tail(s))

\* C6: in text-stream mode the k-th cell drawn (k from 0, counted across rows)
\* shows character k mod n of the text without its non-alphabetic characters;
\* for "Hello, World!" that is "HelloWorld" over and over.
C6_TextStreamCycles ==
  (text_file.ok /\ drawn.ok /\ AlphabeticOnly(text_file.val) # <<>>) =>
    LET clean == AlphabeticOnly(text_file.val)
        k == cells - 1
    IN  /\ drawn.glyph = clean[(k % Len(clean)) + 1]
        /\ (text_file.val = StrHello)
             => (drawn.glyph = StrHelloWorld[(k % 10) + 1])

\* The eleventh cell of a "Hello, World!" run, on the second row or below,
\* shows 'H' again.
C6_Witness ==
  /\ text_file.ok
  /\ text_file.val = StrHello
  /\ drawn.ok
  /\ cells = 11
  /\ drawn.glyph = 72
  /\ drawn.y > 0

\* C7: with a literal character configured, every glyph drawn is that
\* character, whatever the text file and charset options.
C7_LiteralAlways ==
  (args.character # <<>> /\ drawn.ok) => (drawn.glyph = Head(args.character))

\* A literal run with a custom charset has drawn several cells.
C7_Witness ==
  /\ args.character = StrHash
  /\ custom_file.ok
  /\ drawn.ok
  /\ drawn.glyph = 35
  /\ cells >= 3

\* C8: in random mode with a custom charset file, every glyph drawn is a
\* character of the file's trimmed contents, never one of the named charset
\* alone.
C8_CustomCharsetOnly ==
  (custom_file.ok /\ drawn.ok /\ text = <<>> /\ args.character = <<>>) =>
    /\ \E i \in 1..Len(custom_file.val) :
         /\ drawn.glyph = custom_file.val[i]
         /\ \E j \in 1..i : ~IsWhitespace(custom_file.val[j])
         /\ \E j \in i..Len(custom_file.val) : ~IsWhitespace(custom_file.val[j])
    /\ (custom_file.val = StrXy) => (drawn.glyph \in {120, 121})

\* A random-mode run with the file " xy\n" has drawn a 'y'.
C8_Witness ==
  /\ custom_file.ok
  /\ custom_file.val = StrXy
  /\ text = <<>>
  /\ args.character = <<>>
  /\ drawn.ok
  /\ drawn.glyph = 121
  /\ cells >= 2

\* The pixels of a buffer that lie in a requested region.
InBounds(buffer, r) ==
  {p \in Coords(buffer.width, buffer.height) :
     /\ p[1] >= r.x /\ p[1] < r.x + r.width
     /\ p[2] >= r.y /\ p[2] < r.y + r.height}

RECURSIVE SumOver(_, _, _)
SumOver(buffer, ch, ps) ==
  IF ps = {} THEN 0
  ELSE LET p == CHOOSE q \in ps : TRUE
       IN  buffer.px[p][ch] + SumOver(buffer, ch, ps \ {p})

\* C9: for a region with at least one pixel in bounds, every channel of the
\* average is floor(sum over the in-bounds pixels / their number); a region
\* of one colour yields that colour.
C9_AverageIsFloor ==
  (avg_out # Unset /\ InBounds(avg_in.buffer, avg_in.region) # {}) =>
    LET ps == InBounds(avg_in.buffer, avg_in.region)
        n == Cardinality(ps)
    IN  /\ avg_out.result.ok
        /\ \A ch \in 1..3 :
             /\ avg_out.result.val[ch] * n <= SumOver(avg_in.buffer, ch, ps)
             /\ SumOver(avg_in.buffer, ch, ps) < (avg_out.result.val[ch] + 1) * n
        /\ \A c \in {Black, Orange} :
             (\A p \in ps : avg_in.buffer.px[p] = c) => (avg_out.result.val = c)

\* A region reaching past the buffer whose two in-bounds pixels average to
\* 127.5, 0.5 and 1: the result is (127, 0, 1).
C9_Witness ==
  /\ avg_out # Unset
  /\ avg_in.region.x + avg_in.region.width > avg_in.buffer.width
  /\ Cardinality(InBounds(avg_in.buffer, avg_in.region)) = 2
  /\ avg_out.result.ok
  /\ avg_out.result.val = <<127, 0, 1>>

\* C10: the sampled sections tile the source image.  A drawn cell's section
\* starts at the cursor, inside the image, and is not empty; a pixel has been
\* sampled once if it lies in a finished row or left of the cursor in the
\* current row, and never otherwise; when the loop is left every pixel has
\* been sampled exactly once.
C10_SectionsTile ==
  /\ (drawn.ok /\ pc # "panic") =>
       /\ section.x = drawn.x /\ section.y = drawn.y
       /\ drawn.x < ImageWidth /\ drawn.y < ImageHeight
       /\ section.width >= 1 /\ section.height >= 1
  /\ (pc = "cell") =>
       \A p \in DOMAIN covered :
         covered[p] = IF \/ p[2] < y
                          \/ (p[2] < y + StepHeight(GlyphHeight) /\ p[1] < x)
                      THEN 1 ELSE 0
  /\ (pc = "row") =>
       \A p \in DOMAIN covered : covered[p] = IF p[2] < y THEN 1 ELSE 0
  /\ (pc \in {"save", "done"}) => \A p \in DOMAIN covered : covered[p] = 1

\* A finished run with the proportional font at size 3 (cells 1 and 2 pixels
\* wide, 2 pixels high) over an image 4 wide and 3 high.
C10_Witness ==
  /\ pc = "done"
  /\ args.font = "prop.ttf"
  /\ args.font_size = 3
  /\ ImageWidth = 4
  /\ ImageHeight = 3
  /\ cells >= 5

====
